---- MODULE Spec2Model ----
(***************************************************************************)
(* Model of kedavra/f2.py: the Kinect v2 infrared capture session.         *)
(*                                                                         *)
(* Two threads share the module-level queue ir_queue:                      *)
(*   - DeviceController.display, the frame-delivery loop, which enqueues   *)
(*     normalised IR frames, restarts the device on a frame timeout and    *)
(*     sets the kill flag;                                                 *)
(*   - worker, the trace engine, which pops a frame, segments it, detects  *)
(*     keypoints and accumulates the velocity-filtered trace.              *)
(*                                                                         *)
(* Time is time.process_time() counted in half seconds, so that            *)
(* KEYPOINT_TIMEOUT (1 s) is 2 and DELAY_AFTER_RESET (1.5 s) is 3.         *)
(* Keypoints are points of a small integer grid; the distance test of      *)
(* append_point is made on squared distances, which is exact there.        *)
(* The canvas is the set of line segments drawn on it.                     *)
(***************************************************************************)
EXTENDS Integers, Sequences, FiniteSets, TLC

VARIABLES
    ir_queue,             \* frames put by on_frame and not yet popped
    points,               \* accepted points, oldest first
    trace,                \* None, or the canvas: the segments drawn on it
    last_point_ts,        \* None, or the time of the last accepted point
    last_reset_ts,        \* None, or the time of the last reset
    ready,                \* the ready flag
    clock,                \* time.process_time()
    wpc,                  \* worker: position in the loop body
    now,                  \* worker local: now
    elapsed_since_point,  \* worker local
    elapsed_since_reset,  \* worker local
    keypoints,            \* worker local: the keypoints of this tick
    kp_i,                 \* worker local: keypoints already offered by the for loop
    image,                \* worker local: the frame popped, 0 when none is held
    written,              \* the cv.imwrite calls made, oldest first
    dpc,                  \* display: position in display()
    should_kill,          \* DeviceController._should_kill
    retries,              \* display local: retries
    d_image,              \* on_frame local: the IR frame it holds, 0 when none
    started_after_kill,   \* history: frames the worker popped with the flag set
    delivered,            \* history: numbered frames put on the queue
    restarts,             \* history: calls of DeviceController.restart
    frame_timeouts        \* history: NoFrameReceivedError caught by display

vars == <<ir_queue, points, trace, last_point_ts, last_reset_ts, ready, clock,
          wpc, now, elapsed_since_point, elapsed_since_reset, keypoints, kp_i,
          image, written, dpc, should_kill, retries, d_image,
          started_after_kill, delivered, restarts, frame_timeouts>>

traceVars == <<points, trace, last_point_ts, last_reset_ts, ready>>
localVars == <<now, elapsed_since_point, elapsed_since_reset, keypoints, kp_i>>
displayVars == <<dpc, should_kill, retries>>
deliveryVars == <<d_image, delivered>>
retryVars == <<restarts, frame_timeouts>>

(***************************************************************************)
(* Bounds of the model.                                                    *)
(***************************************************************************)
MaxTime == 5
MaxQueue == 2
MaxKeypoints == 2
MaxPoints == 22
MaxStrokePoints == 4
MaxFrames == 3

(***************************************************************************)
(* Program constants (times in half seconds).                              *)
(***************************************************************************)
KEYPOINT_TIMEOUT == 2
DELAY_AFTER_RESET == 3
VELOCITY_LOWER_BOUND == 10
VELOCITY_UPPER_BOUND == 120
MIN_POINTS == 20
InitialRetries == 3

(***************************************************************************)
(* Python's None and a value that is not None.                             *)
(***************************************************************************)
None == <<>>
Some(x) == <<x>>
Val(o) == o[1]

(***************************************************************************)
(* Keypoint positions.  A-B are 10 apart and C-D 120 apart (the two        *)
(* inclusive limits); F is 9 from B and C is 121 from B (just outside);    *)
(* every other pair is further apart than 120.                             *)
(***************************************************************************)
PtA == <<0, 0>>
PtB == <<6, 8>>
PtC == <<127, 8>>
PtD == <<247, 8>>
PtF == <<6, -1>>
Positions == {PtA, PtB, PtC, PtD, PtF}

\* E is 10 from B and 20 from A: A, B and E are pairwise inside the band
PtE == <<12, 16>>
StrokePositions == {PtA, PtB, PtE}

RECURSIVE SeqsUpTo(_, _)
SeqsUpTo(S, n) ==
    IF n = 0 THEN {<<>>}
    ELSE LET shorter == SeqsUpTo(S, n - 1)
         IN  shorter \cup
             {Append(s, x) : s \in {t \in shorter : Len(t) = n - 1}, x \in S}

Range(s) == {s[i] : i \in 1..Len(s)}

\* detector.detect(mask): the blobs of one mask, at distinct positions
BlobLists(S, n) == {s \in SeqsUpTo(S, n) : Cardinality(Range(s)) = Len(s)}

KeypointLists == BlobLists(Positions, MaxKeypoints)

StrokeLists == BlobLists(StrokePositions, MaxKeypoints)

\* the same, for masks that hold one blob at most
OneBlobLists == BlobLists(Positions, 1)

\* one blob at most, at A or at B
TwoPositionLists == BlobLists({PtA, PtB}, 1)

\* cv.norm(prev_point - point), squared
Norm2(p, q) == (p[1] - q[1]) * (p[1] - q[1]) + (p[2] - q[2]) * (p[2] - q[2])

\* mutant: the lower limit taken as exclusive
InVelocityBand_StrictLower(p, q) ==
    /\ VELOCITY_LOWER_BOUND * VELOCITY_LOWER_BOUND < Norm2(p, q)
    /\ Norm2(p, q) <= VELOCITY_UPPER_BOUND * VELOCITY_UPPER_BOUND

\* mutant: no upper limit
InVelocityBand_NoUpper(p, q) ==
    VELOCITY_LOWER_BOUND * VELOCITY_LOWER_BOUND <= Norm2(p, q)

\* VELOCITY_LOWER_BOUND <= norm <= VELOCITY_UPPER_BOUND
InVelocityBand(p, q) ==
    /\ VELOCITY_LOWER_BOUND * VELOCITY_LOWER_BOUND <= Norm2(p, q)
    /\ Norm2(p, q) <= VELOCITY_UPPER_BOUND * VELOCITY_UPPER_BOUND

\* mutant: the first point of a trace is appended without its timestamp
append_point_NoStampFirst(pts, lpt, point, t) ==
    IF pts = <<>>
    THEN <<Append(pts, point), lpt>>
    ELSE IF ~InVelocityBand(pts[Len(pts)], point)
         THEN <<pts, lpt>>
         ELSE <<Append(pts, point), Some(t)>>

\* append_point(point) at time t: the new <<points, last_point_ts>>
append_point(pts, lpt, point, t) ==
    IF pts = <<>>
    THEN <<Append(pts, point), Some(t)>>
    ELSE IF ~InVelocityBand(pts[Len(pts)], point)
         THEN <<pts, lpt>>
         ELSE <<Append(pts, point), Some(t)>>

\* cv.line(trace, p1, p2, ...): the canvas with the segment p1-p2 drawn
Line(canvas, p1, p2) == Some(Val(canvas) \cup {{p1, p2}})

\* np.zeros(shape): a canvas with nothing drawn
Zeros == Some({})

\* mutant: a segment only from the third point on
HasSegment_Three(n) == n > 2

\* len(points) >= 2
HasSegment(n) == n >= 2

\* mutant: a trace of exactly MIN_POINTS points is not written
EnoughPoints_Strict(n) == n > MIN_POINTS

\* num_points >= MIN_POINTS
EnoughPoints(n) == n >= MIN_POINTS

\* mutant: no reset when exactly KEYPOINT_TIMEOUT has elapsed
TimedOut_Strict(e) == e > KEYPOINT_TIMEOUT

\* elapsed_since_point >= KEYPOINT_TIMEOUT
TimedOut(e) == e >= KEYPOINT_TIMEOUT

\* mutant: the warm-up compared with the wrong constant
WarmedUp_WrongConstant(e) == e >= KEYPOINT_TIMEOUT

\* elapsed_since_reset >= DELAY_AFTER_RESET
WarmedUp(e) == e >= DELAY_AFTER_RESET

WorkerDead == wpc \in {"raised", "empty"}

(***************************************************************************)
(* Initial state: the module is imported and DeviceController()            *)
(* constructed; display() has not run.                                     *)
(***************************************************************************)
Init ==
    /\ ir_queue = <<>>
    /\ points = <<>>
    /\ trace = None
    /\ last_point_ts = None
    /\ last_reset_ts = None
    /\ ready = FALSE
    /\ clock = 0
    /\ wpc = "unstarted"
    /\ now = 0
    /\ elapsed_since_point = 0
    /\ elapsed_since_reset = 0
    /\ keypoints = <<>>
    /\ kp_i = 0
    /\ written = <<>>
    /\ dpc = "init"
    /\ should_kill = FALSE
    /\ retries = 0
    /\ started_after_kill = 0
    /\ image = 0
    /\ d_image = 0
    /\ delivered = 0
    /\ restarts = 0
    /\ frame_timeouts = 0

(***************************************************************************)
(* The clock.                                                              *)
(***************************************************************************)
AdvanceClockTo(max) ==
    /\ clock < max
    /\ clock' = clock + 1
    /\ UNCHANGED <<ir_queue, traceVars, wpc, localVars, written, displayVars>>
    /\ UNCHANGED <<image, started_after_kill, deliveryVars, retryVars>>

AdvanceClock == AdvanceClockTo(MaxTime)

\* long enough for two traces to time out one after the other
AdvanceClockLong == AdvanceClockTo(2 * MaxTime)

(***************************************************************************)
(* worker()                                                                *)
(***************************************************************************)
\* mutant: a LifoQueue, the frame put last is popped first
QueueGet_Lifo(q) == <<q[Len(q)], SubSeq(q, 1, Len(q) - 1)>>

\* Queue.get on a queue that is not empty: <<the item, the queue left>>
QueueGet(q) == <<Head(q), Tail(q)>>

\* Queue.put
QueuePut(q, item) == Append(q, item)

\* image = ir_queue.get(timeout=3): a frame is there
WorkerGet ==
    /\ wpc = "get"
    /\ ir_queue # <<>>
    /\ image' = QueueGet(ir_queue)[1]
    /\ ir_queue' = QueueGet(ir_queue)[2]
    /\ wpc' = "segment"
    /\ started_after_kill' = started_after_kill + (IF should_kill THEN 1 ELSE 0)
    /\ UNCHANGED <<traceVars, clock, localVars, written, displayVars>>
    /\ UNCHANGED <<deliveryVars, retryVars>>

\* mutant: ir_queue.get() without a timeout blocks for ever
GetTimesOut_Never == FALSE

\* ir_queue.get(timeout=3) gives up once the queue has stayed empty for 3 s
GetTimesOut == TRUE

\* image = ir_queue.get(timeout=3): no frame within the timeout, queue.Empty is
\* raised and nothing in worker catches it
WorkerGetEmpty ==
    /\ wpc = "get"
    /\ ir_queue = <<>>
    /\ GetTimesOut
    /\ wpc' = "empty"
    /\ UNCHANGED <<ir_queue, traceVars, clock, localVars, written, displayVars>>
    /\ UNCHANGED <<image, started_after_kill, deliveryVars, retryVars>>

\* image *= 255 ... mask = mog2.apply(thresholded); now = time.process_time();
\* elapsed_since_point
WorkerSegment ==
    /\ wpc = "segment"
    /\ now' = clock
    /\ elapsed_since_point' =
          IF last_point_ts # None THEN clock - Val(last_point_ts) ELSE 0
    /\ wpc' = "check"
    /\ UNCHANGED <<ir_queue, traceVars, clock, elapsed_since_reset, keypoints,
                   kp_i, written, displayVars>>
    /\ UNCHANGED <<image, started_after_kill, deliveryVars, retryVars>>

\* an exception raised by a step of the loop body: nothing in worker catches it
WorkerRaise ==
    /\ wpc \in {"segment", "detect", "render"}
    /\ wpc' = "raised"
    /\ UNCHANGED <<ir_queue, traceVars, clock, localVars, written, displayVars>>
    /\ UNCHANGED <<image, started_after_kill, deliveryVars, retryVars>>

\* os.makedirs(outdir) raises inside reset_trace(shape): nothing in reset_trace
\* or worker catches it, the globals are not yet assigned
WorkerResetRaise ==
    /\ wpc = "check"
    /\ trace # None
    /\ TimedOut(elapsed_since_point)
    /\ wpc' = "raised"
    /\ UNCHANGED <<ir_queue, traceVars, clock, localVars, written, displayVars>>
    /\ UNCHANGED <<image, started_after_kill, deliveryVars, retryVars>>

\* mutant: the canvas is not replaced by a fresh one
reset_trace_KeepCanvas(save, t) ==
    LET num_points == Len(points)
        w == IF save /\ EnoughPoints(num_points)
             THEN Append(written, [path |-> t, num_points |-> num_points,
                                   image |-> Val(trace)])
             ELSE written
    IN  <<<<>>, IF trace = None THEN Zeros ELSE trace, None, Some(t), w>>

\* mutant: the canvas is written whatever save and the number of points
reset_trace_AlwaysWrite(save, t) ==
    LET num_points == Len(points)
        w == Append(written, [path |-> t, num_points |-> num_points,
                              image |-> IF trace = None THEN {} ELSE Val(trace)])
    IN  <<<<>>, Zeros, None, Some(t), w>>

\* mutant: last_point_ts is not cleared
reset_trace_KeepTimestamp(save, t) ==
    LET num_points == Len(points)
        w == IF save /\ EnoughPoints(num_points)
             THEN Append(written, [path |-> t, num_points |-> num_points,
                                   image |-> Val(trace)])
             ELSE written
    IN  <<<<>>, Zeros, last_point_ts, Some(t), w>>

\* mutant: points and last_point_ts are assigned as locals, the globals stay
reset_trace_NoGlobals(save, t) ==
    LET num_points == Len(points)
        w == IF save /\ EnoughPoints(num_points)
             THEN Append(written, [path |-> t, num_points |-> num_points,
                                   image |-> Val(trace)])
             ELSE written
    IN  <<points, Zeros, last_point_ts, Some(t), w>>

\* reset_trace(shape, save): the new <<points, trace, last_point_ts,
\* last_reset_ts, written>> at time t.  The file name is time.time_ns(), a
\* clock that moves forward with time.process_time(): it is read as t too.
reset_trace(save, t) ==
    LET num_points == Len(points)
        w == IF save /\ EnoughPoints(num_points)
             THEN Append(written, [path |-> t, num_points |-> num_points,
                                   image |-> Val(trace)])
             ELSE written
    IN  <<<<>>, Zeros, None, Some(t), w>>

\* if trace is None: reset_trace(save=False)
\* elif elapsed_since_point >= KEYPOINT_TIMEOUT: reset_trace()
\* elapsed_since_reset = now - last_reset_ts
WorkerCheck ==
    /\ wpc = "check"
    /\ LET r == reset_trace(trace # None, clock)
           doReset == trace = None \/ TimedOut(elapsed_since_point)
       IN  /\ points' = IF doReset THEN r[1] ELSE points
           /\ trace' = IF doReset THEN r[2] ELSE trace
           /\ last_point_ts' = IF doReset THEN r[3] ELSE last_point_ts
           /\ last_reset_ts' = IF doReset THEN r[4] ELSE last_reset_ts
           /\ written' = IF doReset THEN r[5] ELSE written
    /\ elapsed_since_reset' = now - Val(last_reset_ts')
    /\ wpc' = "detect"
    /\ UNCHANGED <<ir_queue, ready, clock, now, elapsed_since_point, keypoints,
                   kp_i, displayVars>>
    /\ UNCHANGED <<image, started_after_kill, deliveryVars, retryVars>>

\* keypoints = detector.detect(mask); if elapsed_since_reset >= DELAY_AFTER_RESET:
\* ready = True ... else: ready = False
WorkerDetect(lists, cap) ==
    /\ wpc = "detect"
    /\ \E k \in lists :
          /\ Len(points) + Len(k) <= cap
          /\ keypoints' = k
    /\ kp_i' = 0
    /\ IF WarmedUp(elapsed_since_reset)
       THEN ready' = TRUE /\ wpc' = "append"
       ELSE ready' = FALSE /\ wpc' = "render"
    /\ UNCHANGED <<ir_queue, points, trace, last_point_ts, last_reset_ts, clock,
                   now, elapsed_since_point, elapsed_since_reset, written,
                   displayVars>>
    /\ UNCHANGED <<image, started_after_kill, deliveryVars, retryVars>>

\* for p in cv.KeyPoint_convert(keypoints): append_point(p)
WorkerAppend ==
    /\ wpc = "append"
    /\ kp_i < Len(keypoints)
    /\ LET r == append_point(points, last_point_ts, keypoints[kp_i + 1], clock)
       IN  /\ points' = r[1]
           /\ last_point_ts' = r[2]
    /\ kp_i' = kp_i + 1
    /\ UNCHANGED <<ir_queue, trace, last_reset_ts, ready, clock, wpc, now,
                   elapsed_since_point, elapsed_since_reset, keypoints, written,
                   displayVars>>
    /\ UNCHANGED <<image, started_after_kill, deliveryVars, retryVars>>

\* if len(points) >= 2: cv.line(trace, points[-2], points[-1], ...)
WorkerLine ==
    /\ wpc = "append"
    /\ kp_i = Len(keypoints)
    /\ trace' = IF HasSegment(Len(points))
                THEN Line(trace, points[Len(points) - 1], points[Len(points)])
                ELSE trace
    /\ wpc' = "render"
    /\ UNCHANGED <<ir_queue, points, last_point_ts, last_reset_ts, ready, clock,
                   localVars, written, displayVars>>
    /\ UNCHANGED <<image, started_after_kill, deliveryVars, retryVars>>

\* drawKeypoints, imshow, ir_queue.task_done(); back to the top of the loop,
\* where the locals of this iteration are dead (they are set again before use)
WorkerRender ==
    /\ wpc = "render"
    /\ wpc' = "get"
    /\ now' = 0
    /\ elapsed_since_point' = 0
    /\ elapsed_since_reset' = 0
    /\ keypoints' = <<>>
    /\ kp_i' = 0
    /\ image' = 0
    /\ UNCHANGED <<ir_queue, traceVars, clock, written, displayVars>>
    /\ UNCHANGED <<started_after_kill, deliveryVars, retryVars>>

(***************************************************************************)
(* DeviceController.display()                                              *)
(***************************************************************************)
\* self.ir_thread.start(); self._device.start(); retries = 3
DisplayStart ==
    /\ dpc = "init"
    /\ wpc' = "get"
    /\ retries' = InitialRetries
    /\ dpc' = "loop"
    /\ UNCHANGED <<ir_queue, traceVars, clock, localVars, written, should_kill>>
    /\ UNCHANGED <<image, started_after_kill, deliveryVars, retryVars>>

\* DeviceController.on_frame(frame_type, frame) up to ir_queue.put(image): only
\* IR frames are queued, and on_frame goes on holding the image it has put
on_frame(frame_type, frame) ==
    IF frame_type = "Ir"
    THEN ir_queue' = QueuePut(ir_queue, frame) /\ d_image' = frame
    ELSE ir_queue' = ir_queue /\ d_image' = 0

\* mutant: the loop does not look at the flag
LoopCondition_Always == TRUE

\* while not self._should_kill
LoopCondition == ~should_kill

\* get_next_frame returns a frame; self.on_frame(frame_type, frame).  The
\* frames are not told apart: every frame is frame 0.
DisplayFrame ==
    /\ dpc = "loop"
    /\ LoopCondition
    /\ Len(ir_queue) < MaxQueue
    /\ \E frame_type \in {"Ir", "Color"} : on_frame(frame_type, 0)
    /\ dpc' = "waitKey"
    /\ UNCHANGED <<traceVars, clock, wpc, localVars, written, should_kill, retries>>
    /\ UNCHANGED <<image, started_after_kill, delivered, retryVars>>

\* the same, the IR frames numbered 1, 2, ... in the order of their delivery
DisplayNumberedFrame ==
    /\ dpc = "loop"
    /\ LoopCondition
    /\ Len(ir_queue) < MaxQueue
    /\ delivered < MaxFrames
    /\ \E frame_type \in {"Ir", "Color"} :
          /\ on_frame(frame_type, delivered + 1)
          /\ delivered' = IF frame_type = "Ir" THEN delivered + 1 ELSE delivered
    /\ dpc' = "waitKey"
    /\ UNCHANGED <<traceVars, clock, wpc, localVars, written, should_kill, retries>>
    /\ UNCHANGED <<image, started_after_kill, retryVars>>

\* DeviceController.kill()
kill == should_kill' = TRUE

\* the end of on_frame, cv.imshow('IR', image), which reads the image it holds,
\* then DeviceController.waitKey(): 'q' runs kill, any other key or none does
\* nothing
waitKey(char) ==
    /\ dpc = "waitKey"
    /\ d_image' = 0
    /\ IF char = "q" THEN kill ELSE UNCHANGED should_kill
    /\ dpc' = "loop"
    /\ UNCHANGED <<ir_queue, traceVars, clock, wpc, localVars, written, retries>>
    /\ UNCHANGED <<image, started_after_kill, delivered, retryVars>>

DisplayWaitKey == \E char \in {"q", "none"} : waitKey(char)

DisplayWaitKeyNone == waitKey("none")

\* mutant: the last retry is not used
RetriesLeft_OffByOne(r) == r > 1

\* if retries
RetriesLeft(r) == r # 0

\* except fn2.NoFrameReceivedError: restart while retries are left, else kill
DisplayNoFrame ==
    /\ dpc = "loop"
    /\ LoopCondition
    /\ frame_timeouts' = frame_timeouts + 1
    /\ IF RetriesLeft(retries)
       THEN /\ restarts' = restarts + 1
            /\ retries' = retries - 1
            /\ UNCHANGED should_kill
       ELSE kill /\ UNCHANGED <<retries, restarts>>
    /\ UNCHANGED <<ir_queue, traceVars, clock, wpc, localVars, written, dpc>>
    /\ UNCHANGED <<image, started_after_kill, deliveryVars>>

\* except fn2.NoFrameReceivedError with retries left, and self.restart() raises
\* (self._device.close() or fn2.Device() fails): the exception leaves the
\* handler and display() before retries -= 1, the flag is not set and cleanup
\* is not run
DisplayRestartRaise ==
    /\ dpc = "loop"
    /\ LoopCondition
    /\ RetriesLeft(retries)
    /\ frame_timeouts' = frame_timeouts + 1
    /\ restarts' = restarts + 1
    /\ dpc' = "raised"
    /\ UNCHANGED <<ir_queue, traceVars, clock, wpc, localVars, written,
                   should_kill, retries>>
    /\ UNCHANGED <<image, started_after_kill, deliveryVars>>

\* except Exception: self.kill()
DisplayException ==
    /\ dpc = "loop"
    /\ LoopCondition
    /\ kill
    /\ UNCHANGED <<ir_queue, traceVars, clock, wpc, localVars, written, dpc, retries>>
    /\ UNCHANGED <<image, started_after_kill, deliveryVars, retryVars>>

\* while not self._should_kill: the flag is set, the loop ends
DisplayExit ==
    /\ dpc = "loop"
    /\ ~LoopCondition
    /\ dpc' = "cleanup"
    /\ UNCHANGED <<ir_queue, traceVars, clock, wpc, localVars, written,
                   should_kill, retries>>
    /\ UNCHANGED <<image, started_after_kill, deliveryVars, retryVars>>

\* DeviceController.cleanup(): self.ir_thread.join() returns once worker ended
cleanup ==
    /\ dpc = "cleanup"
    /\ WorkerDead
    /\ dpc' = "done"
    /\ UNCHANGED <<ir_queue, traceVars, clock, wpc, localVars, written,
                   should_kill, retries>>
    /\ UNCHANGED <<image, started_after_kill, deliveryVars, retryVars>>

Worker(lists, cap) ==
    \/ WorkerGet
    \/ WorkerGetEmpty
    \/ WorkerSegment
    \/ WorkerRaise
    \/ WorkerCheck
    \/ WorkerResetRaise
    \/ WorkerDetect(lists, cap)
    \/ WorkerAppend
    \/ WorkerLine
    \/ WorkerRender

Display ==
    \/ DisplayStart
    \/ DisplayFrame
    \/ DisplayWaitKey
    \/ DisplayNoFrame
    \/ DisplayRestartRaise
    \/ DisplayException
    \/ DisplayExit
    \/ cleanup

(***************************************************************************)
(* The whole session: both threads, every device and operator event, with  *)
(* masks of one blob at most and short traces.                             *)
(***************************************************************************)
Next == AdvanceClock \/ Worker(OneBlobLists, MaxStrokePoints) \/ Display

Spec == Init /\ [][Next]_vars

(***************************************************************************)
(* The whole session with one blob at most at one of two positions, the    *)
(* two threads being scheduled for ever: each takes its next step when it  *)
(* has one.  Time need not advance.                                        *)
(***************************************************************************)
NextFair == AdvanceClock \/ Worker(TwoPositionLists, MaxStrokePoints) \/ Display

FairSpec ==
    /\ Init
    /\ [][NextFair]_vars
    /\ WF_vars(Worker(TwoPositionLists, MaxStrokePoints))
    /\ WF_vars(Display)

(***************************************************************************)
(* The trace engine under a healthy session: the device keeps delivering   *)
(* frames and the operator does not quit; masks of up to MaxKeypoints      *)
(* blobs.                                                                  *)
(***************************************************************************)
NextEngine ==
    \/ AdvanceClock
    \/ Worker(KeypointLists, MaxPoints)
    \/ DisplayStart
    \/ DisplayFrame
    \/ DisplayWaitKeyNone

SpecEngine == Init /\ [][NextEngine]_vars

(***************************************************************************)
(* The same healthy session with short traces over positions where one     *)
(* point has two neighbours inside the velocity band.                      *)
(***************************************************************************)
NextStrokes ==
    \/ AdvanceClock
    \/ Worker(StrokeLists, MaxStrokePoints)
    \/ DisplayStart
    \/ DisplayFrame
    \/ DisplayWaitKeyNone

SpecStrokes == Init /\ [][NextStrokes]_vars

(***************************************************************************)
(* The healthy session over a longer time, with one blob at most at one of *)
(* two positions: long enough for a second trace to be written.            *)
(***************************************************************************)
NextTwoTraces ==
    \/ AdvanceClockLong
    \/ Worker(TwoPositionLists, MaxPoints)
    \/ DisplayStart
    \/ DisplayFrame
    \/ DisplayWaitKeyNone

SpecTwoTraces == Init /\ [][NextTwoTraces]_vars

(***************************************************************************)
(* The whole session with the delivered IR frames told apart.              *)
(***************************************************************************)
NextFrames ==
    \/ AdvanceClock
    \/ Worker(OneBlobLists, MaxStrokePoints)
    \/ DisplayStart
    \/ DisplayNumberedFrame
    \/ DisplayWaitKey
    \/ DisplayNoFrame
    \/ DisplayRestartRaise
    \/ DisplayException
    \/ DisplayExit
    \/ cleanup

SpecFrames == Init /\ [][NextFrames]_vars

(***************************************************************************)
(* Properties                                                              *)
(***************************************************************************)
\* the strokes on the canvas (none while no canvas exists)
Strokes == IF trace = None THEN {} ELSE Val(trace)

\* the worker is past the reset decision of the tick in progress
AfterCheck == wpc \in {"detect", "append", "render"}

\* this step is one call of append_point
AppendStep == wpc = "append" /\ kp_i' = kp_i + 1

\* C1: append_point on an empty point sequence appends the candidate
\* unconditionally; on a non-empty one it appends the candidate Q iff
\* 10 <= distance(last accepted point, Q) <= 120, both limits inclusive, and
\* otherwise leaves the point sequence and the last-accepted-point timestamp
\* unchanged.
C1_VelocityFilter ==
    [][AppendStep =>
         LET q == keypoints[kp_i + 1]
             accepted == /\ points' = Append(points, q)
                         /\ last_point_ts' = Some(clock)
         IN  IF points = <<>> THEN accepted
             ELSE LET d2 == Norm2(points[Len(points)], q)
                  IN  IF 10 * 10 <= d2 /\ d2 <= 120 * 120
                      THEN accepted
                      ELSE points' = points /\ last_point_ts' = last_point_ts]_vars

\* C1 witness: in one tick B was accepted at distance exactly 10 from A and F
\* rejected at distance 9 from B.
C1_Witness ==
    /\ wpc = "append"
    /\ kp_i = 2
    /\ keypoints = <<PtB, PtF>>
    /\ points = <<PtA, PtB>>

\* C2: at the end of every worker tick the canvas has at least one stroke if
\* and only if the point sequence holds two points or more.
C2_StrokesIffTwoPoints ==
    wpc \in {"render", "get"} => (Strokes # {} <=> Len(points) >= 2)

\* C2 witness: a tick has ended with two points and a stroke.
C2_Witness == wpc = "get" /\ Len(points) = 2 /\ Strokes # {}

\* C3, as stated: the point sequence is empty exactly when the canvas has no
\* strokes.
C3_EmptyIffNoStrokes == (points = <<>>) <=> (Strokes = {})

\* C3, amended: a trace holding fewer than two points (none, or a single
\* accepted point) has no stroke on its canvas.
C3_FewerThanTwoNoStrokes == Len(points) < 2 => Strokes = {}

\* C3 witness: a tick has ended with a single accepted point and an empty
\* canvas.
C3_Witness == wpc = "get" /\ Len(points) = 1 /\ trace = Zeros

\* C4: on every saving reset (one that discards a non-empty trace) the canvas
\* is handed to cv.imwrite iff the outgoing trace holds MIN_POINTS points or
\* more.
C4_PersistenceThreshold ==
    [][(points # <<>> /\ points' = <<>>) =>
         IF Len(points) >= MIN_POINTS
         THEN written' = Append(written, [path |-> clock,
                                           num_points |-> Len(points),
                                           image |-> Strokes])
         ELSE written' = written]_vars

\* C4 witness: a trace of exactly MIN_POINTS points has been written.
C4_Witness == written # <<>> /\ written[Len(written)].num_points = MIN_POINTS

\* C5: on a tick that finds elapsed_since_point >= KEYPOINT_TIMEOUT the reset
\* has run (last_reset_ts is of this tick) before any keypoint is offered, so
\* the point sequence holds at most the keypoints offered on this tick.
C5_ResetBeforeAppend ==
    (AfterCheck /\ elapsed_since_point >= KEYPOINT_TIMEOUT) =>
        /\ Len(points) <= kp_i
        /\ Val(last_reset_ts) >= now

\* C5 witness: a timed-out tick has written the outgoing trace and detected a
\* keypoint that is not in the point sequence.
C5_Witness ==
    /\ wpc = "render"
    /\ elapsed_since_point >= KEYPOINT_TIMEOUT
    /\ written # <<>>
    /\ keypoints # <<>>
    /\ points = <<>>

\* the tick in progress began less than DELAY_AFTER_RESET after the last reset
InWarmUp == AfterCheck /\ now - Val(last_reset_ts) < DELAY_AFTER_RESET

\* C6: on a tick with elapsed-since-reset < DELAY_AFTER_RESET no step changes
\* the point sequence and the tick ends with ready false; on a tick with
\* elapsed-since-reset >= DELAY_AFTER_RESET the keypoints are offered to
\* append_point with ready true, and one offered to an empty point sequence
\* is accepted.
C6_WarmUpGating ==
    [][/\ InWarmUp => (points' = points /\ (wpc' = "render" => ~ready'))
       /\ (AfterCheck /\ ~InWarmUp /\ wpc = "detect" /\ wpc' \notin {"detect", "raised"})
             => (ready' /\ wpc' = "append")
       /\ (AppendStep /\ points = <<>>) =>
             (~InWarmUp /\ points' = <<keypoints[kp_i + 1]>>)]_vars

\* C6 witness: a keypoint was detected on a warm-up tick and not accepted.
C6_Witness ==
    /\ wpc = "render"
    /\ InWarmUp
    /\ keypoints # <<>>
    /\ points = <<>>
    /\ ~ready

\* C7, as stated: at the end of every tick the canvas holds a segment between
\* every pair of consecutive points of the point sequence.
C7_StrokeContinuity ==
    wpc \in {"render", "get"} =>
        \A i \in 1..(Len(points) - 1) : {points[i], points[i + 1]} \in Strokes

\* C8, as stated: an exception raised by a step of a tick does not end the
\* worker.
C8_WorkerSurvivesException == wpc # "raised"

\* C9, as stated: a queue pop that times out while the session is not killed
\* does not end the worker.
C9_StarvationNotFatal ==
    [][(wpc = "get" /\ ir_queue = <<>> /\ ~should_kill) => wpc' # "empty"]_vars

\* C10, as stated: once the kill flag is set the worker finishes at most the
\* tick in progress, so it pops at most one more frame.
C10_NoTickAfterKill == started_after_kill <= 1

\* C10, amended: once kill() has set the flag it stays set and the delivery
\* loop puts no further frame on the queue; the worker does not read the flag:
\* at the top of its loop it pops the next frame whenever one is waiting and
\* ends only when the queue is empty (its pop times out).
C10_KillStopsDeliveryOnly ==
    [][should_kill =>
         /\ should_kill'
         /\ Len(ir_queue') <= Len(ir_queue)
         /\ (wpc = "get" /\ wpc' # "get") =>
               IF ir_queue # <<>>
               THEN wpc' = "segment" /\ ir_queue' = Tail(ir_queue)
               ELSE wpc' = "empty"]_vars

\* C10 witness: the flag is set, display() is in cleanup, and the worker has
\* started a tick on a frame popped after the flag was set.
C10_Witness ==
    /\ should_kill
    /\ dpc = "cleanup"
    /\ started_after_kill >= 1
    /\ wpc = "segment"

\* the worker is at the reset decision of a tick that found the timeout
SavingResetDue ==
    wpc = "check" /\ trace # None /\ elapsed_since_point >= KEYPOINT_TIMEOUT

\* C11, as stated: whatever happens to persistence, a saving reset leaves the
\* point sequence empty, a fresh canvas and no last-accepted-point timestamp,
\* and the worker goes on to detection.
C11_ResetSurvivesPersistenceFailure ==
    [][(SavingResetDue /\ wpc' # "check") =>
         /\ points' = <<>>
         /\ trace' = Zeros
         /\ last_point_ts' = None
         /\ wpc' = "detect"]_vars

\* C12: frames are processed in the order of their delivery, none twice and
\* none skipped: the queue holds the latest delivered frames in ascending order
\* and the frame the worker holds is the one delivered just before them.
C12_FifoOrder ==
    LET n == Len(ir_queue)
    IN  /\ \A i \in 1..n : ir_queue[i] = delivered - n + i
        /\ image # 0 => image = delivered - n

\* C12 witness: the worker is processing frame 2 while frame 3 waits.
C12_Witness == wpc = "segment" /\ image = 2 /\ ir_queue = <<3>>

\* C13, as stated: the delivery thread does not hold, for its cv.imshow, a
\* frame it has put on the queue while the worker is modifying that frame in
\* place.
C13_FrameNotShared == ~(d_image # 0 /\ wpc = "segment" /\ image = d_image)

\* C14: no step taken while the point sequence is empty calls cv.imwrite; this
\* covers the reset of the first tick, which allocates the canvas.
C14_NoWriteOnEmptyReset == [][points = <<>> => written' = written]_vars

\* C14 witness: the first tick has allocated the canvas and nothing was
\* written.
C14_Witness ==
    /\ wpc = "detect"
    /\ trace = Zeros
    /\ last_reset_ts = Some(clock)
    /\ elapsed_since_point = 0
    /\ points = <<>>
    /\ written = <<>>

\* this step is a reset_trace call that returns
ResetStep ==
    /\ wpc = "check"
    /\ wpc' = "detect"
    /\ trace = None \/ elapsed_since_point >= KEYPOINT_TIMEOUT

\* C15: after every completed reset_trace, written or discarded, the point
\* sequence is empty, the canvas is a fresh all-zero one, last_point_ts is
\* cleared and last_reset_ts is the current time; the images written before
\* are as they were, and detection of this tick has not run yet.
C15_ResetPostcondition ==
    [][ResetStep =>
         /\ points' = <<>>
         /\ trace' = Some({})
         /\ last_point_ts' = None
         /\ last_reset_ts' = Some(clock)
         /\ \A i \in 1..Len(written) : written'[i] = written[i]
         /\ keypoints' = <<>> /\ kp_i' = 0]_vars

\* C15 witness: a timed-out tick has completed its reset and is about to
\* detect.
C15_Witness ==
    /\ wpc = "detect"
    /\ elapsed_since_point >= KEYPOINT_TIMEOUT
    /\ trace = Zeros
    /\ last_point_ts = None
    /\ last_reset_ts = Some(clock)

\* C16: any two images written in one session have different file names, the
\* later one written at least DELAY_AFTER_RESET after the earlier one.
C16_DistinctPaths ==
    \A i, j \in 1..Len(written) :
        i < j => written[j].path - written[i].path >= DELAY_AFTER_RESET

\* C16 witness: two traces have been written.
C16_Witness == Len(written) = 2

\* C17: every two consecutive points of the point sequence are between 10
\* and 120 apart.
C17_ConsecutiveInBand ==
    \A i \in 1..(Len(points) - 1) :
        /\ 10 * 10 <= Norm2(points[i], points[i + 1])
        /\ Norm2(points[i], points[i + 1]) <= 120 * 120

\* C17 witness: two keypoints of one tick were accepted after an earlier
\* point.
C17_Witness ==
    /\ wpc = "append"
    /\ kp_i = 2
    /\ keypoints = <<PtD, PtC>>
    /\ points = <<PtC, PtD, PtC>>

\* C18: last_point_ts is set iff the point sequence is not empty, and no step
\* resets a trace that holds no point.
C18_TimestampIffPoints ==
    /\ [](last_point_ts # None <=> points # <<>>)
    /\ [][(trace # None /\ points = <<>>) =>
             (trace' = trace /\ last_reset_ts' = last_reset_ts)]_vars

\* C18 witness: a trace without points has been idle for longer than
\* KEYPOINT_TIMEOUT after its warm-up and the tick did not reset it.
C18_Witness ==
    /\ wpc = "detect"
    /\ points = <<>>
    /\ last_point_ts = None
    /\ now - Val(last_reset_ts) >= DELAY_AFTER_RESET + KEYPOINT_TIMEOUT

C20_Termination ==
    /\ should_kill ~> dpc = "done"
    /\ [][should_kill => Len(ir_queue') <= Len(ir_queue)]_vars
    /\ [][WorkerDead => written' = written]_vars

\* C20 witness: display() has returned after the worker drained a frame left
\* in the queue and its pop timed out, with a trace of two points in memory
\* and nothing written.
C20_Witness ==
    /\ dpc = "done"
    /\ wpc = "empty"
    /\ started_after_kill >= 1
    /\ ir_queue = <<>>
    /\ Len(points) >= 2
    /\ trace # Zeros
    /\ written = <<>>

====
